---- MODULE Spec2Model ----
(***************************************************************************)
(* Model of the Auto Linker plugin (src/main.ts).                          *)
(*                                                                         *)
(* Strings are sequences of one-character strings, so that the regular     *)
(* expressions of the source (heading split, word-boundary match with the  *)
(* "[[" lookbehind and "]]" lookahead, link extraction, ".md" stripping)   *)
(* are computed character by character.                                    *)
(*                                                                         *)
(* Two specifications share the variables:                                 *)
(*   SpecLink  the Section-Aware Linker (linkWords) as a pure function of  *)
(*             a text, a word list, the settings and the vault's paths;    *)
(*   Spec      the plugin's commands (auto-link current file, extend to    *)
(*             directory, remove links, undo) over a small vault, one      *)
(*             suspend point (await) per step, commands run one at a time. *)
(***************************************************************************)
EXTENDS Integers, Sequences, FiniteSets, TLC

VARIABLES
    settings,     \* AutoLinkerSettings (the fields the model reads)
    vaultFiles,   \* paths at which the vault holds a TFile
    vault,        \* the text of each document of the vault
    lastChanges,  \* the plugin's lastChanges: <<[file, oldContent], ...>>
    task,         \* the running link / extend / remove command
    undo,         \* the running undoLastChanges
    notices,      \* the Notices shown since the last command started
    hist,         \* history and budgets of the behaviour
    lw            \* SpecLink: [phase, content, words, out, out2]

----------------------------------------------------------------------------
(* Bounds *)

\* longest text of SpecLink, counted in tokens
MaxTokens == 5

\* longest text of SpecLink's heading inputs, counted in tokens
MaxHeadingTokens == 6

\* commands the user starts in one behaviour of Spec
MaxCmds == 3

\* edits made outside the plugin in one behaviour of Spec
MaxEdits == 1

\* vault reads and writes that throw in one behaviour of Spec
MaxFaults == 1

----------------------------------------------------------------------------
(* Characters and strings *)

\* [A-Za-z0-9_] restricted to the letters of the model's alphabet
WordChars == {"a", "b", "m", "d", "A", "B", "M", "D"}

WhiteSpace == {" ", "\n"}

\* String.prototype.toLowerCase on one character
LowerChar(c) ==
    CASE c = "A" -> "a"
      [] c = "B" -> "b"
      [] c = "M" -> "m"
      [] c = "D" -> "d"
      [] OTHER -> c

toLowerCase(s) == [i \in 1..Len(s) |-> LowerChar(s[i])]

RECURSIVE TrimStart(_)
TrimStart(s) ==
    IF s # <<>> /\ s[1] \in WhiteSpace THEN TrimStart(Tail(s)) ELSE s

RECURSIVE TrimEnd(_)
TrimEnd(s) ==
    IF s # <<>> /\ s[Len(s)] \in WhiteSpace
    THEN TrimEnd(SubSeq(s, 1, Len(s) - 1))
    ELSE s

\* String.prototype.trim
trim(s) == TrimEnd(TrimStart(s))

\* String.prototype.split on a one-character separator: cur is the piece
\* being collected, acc the pieces already closed
RECURSIVE SplitOn(_, _, _, _, _)
SplitOn(s, sep, i, cur, acc) ==
    IF i > Len(s) THEN Append(acc, cur)
    ELSE IF s[i] = sep THEN SplitOn(s, sep, i + 1, <<>>, Append(acc, cur))
    ELSE SplitOn(s, sep, i + 1, Append(cur, s[i]), acc)

split(s, sep) == SplitOn(s, sep, 1, <<>>, <<>>)

\* String.prototype.startsWith
startsWith(s, p) == Len(s) >= Len(p) /\ SubSeq(s, 1, Len(p)) = p

\* String.prototype.endsWith
endsWith(s, p) ==
    Len(s) >= Len(p) /\ SubSeq(s, Len(s) - Len(p) + 1, Len(s)) = p

\* String.prototype.includes
includes(s, sub) ==
    \E i \in 1..(Len(s) - Len(sub) + 1) : SubSeq(s, i, i + Len(sub) - 1) = sub

\* Array.prototype.includes
arrayIncludes(arr, x) == \E i \in 1..Len(arr) : arr[i] = x

\* Array.prototype.join('')
RECURSIVE join(_)
join(parts) == IF parts = <<>> THEN <<>> ELSE Head(parts) \o join(Tail(parts))

\* setting.split(',').map(x => x.trim().toLowerCase()).filter(Boolean)
ParseList(setting) ==
    LET parts == split(setting, ",")
        mapped == [i \in 1..Len(parts) |-> toLowerCase(trim(parts[i]))]
    IN SelectSeq(mapped, LAMBDA x : x # <<>>)

----------------------------------------------------------------------------
(* Section-Aware Linker *)

\* the characters escapeRegExp escapes: . * + ? ^ $ { } ( ) | [ ] \
RegExpSpecial ==
    {".", "*", "+", "?", "^", "$", "{", "}", "(", ")", "|", "[", "]", "\\"}

\* string.replace(/[.*+?^${}()|[\]\\]/g, '\\$&')
RECURSIVE escapeRegExp(_)
escapeRegExp(string) ==
    IF string = <<>> THEN <<>>
    ELSE (IF Head(string) \in RegExpSpecial
          THEN <<"\\", Head(string)>>
          ELSE <<Head(string)>>) \o escapeRegExp(Tail(string))

\* The characters the escaped source of a pattern matches literally: a
\* backslash makes the next character literal, any other character stands
\* for itself (escapeRegExp leaves no unescaped special character).
RECURSIVE PatternLiteral(_)
PatternLiteral(src) ==
    IF src = <<>> THEN <<>>
    ELSE IF Head(src) = "\\" /\ Len(src) >= 2
         THEN <<src[2]>> \o PatternLiteral(SubSeq(src, 3, Len(src)))
         ELSE <<Head(src)>> \o PatternLiteral(Tail(src))

IsWordAt(s, k) == k \in 1..Len(s) /\ s[k] \in WordChars

\* \b between s[i-1] and s[i]
WordBoundary(s, i) == IsWordAt(s, i - 1) # IsWordAt(s, i)

\* (?<!\[\[)\b(word)\b(?!\]\]) with flag i, tried at index i of s
MatchAt(s, lit, i) ==
    LET n == Len(lit) IN
    /\ ~(i >= 3 /\ s[i - 2] = "[" /\ s[i - 1] = "[")
    /\ WordBoundary(s, i)
    /\ i + n - 1 <= Len(s)
    /\ \A k \in 1..n : LowerChar(s[i + k - 1]) = LowerChar(lit[k])
    /\ WordBoundary(s, i + n)
    /\ ~(i + n + 1 <= Len(s) /\ s[i + n] = "]" /\ s[i + n + 1] = "]")

MdSuffix == <<".", "m", "d">>

\* a path lookup that ignores case
fileExistsIgnoringCase(link) ==
    LET linkWithoutExtension ==
            IF endsWith(link, MdSuffix)
            THEN SubSeq(link, 1, Len(link) - 3)
            ELSE link
    IN \E p \in vaultFiles :
          toLowerCase(p) = toLowerCase(linkWithoutExtension \o MdSuffix)

\* link.replace(/\.md$/, ''), then getAbstractFileByPath(`${...}.md`)
\* instanceof TFile
fileExists(link) ==
    LET linkWithoutExtension ==
            IF endsWith(link, MdSuffix)
            THEN SubSeq(link, 1, Len(link) - 3)
            ELSE link
    IN (linkWithoutExtension \o MdSuffix) \in vaultFiles

\* the replace callback
ReplaceCallback(match) ==
    IF settings.existingFilesOnly /\ ~fileExists(match)
    THEN match
    ELSE <<"[", "[">> \o match \o <<"]", "]">>

\* String.prototype.replace with the global pattern: matches are found on
\* the original string, left to right, without overlap; after an empty
\* match the search moves on by one character.
RECURSIVE ReplaceFrom(_, _, _, _)
ReplaceFrom(s, lit, i, acc) ==
    LET here == IF i <= Len(s) THEN <<s[i]>> ELSE <<>> IN
    IF i > Len(s) + 1 THEN acc
    ELSE IF MatchAt(s, lit, i)
    THEN LET r == ReplaceCallback(SubSeq(s, i, i + Len(lit) - 1)) IN
         IF Len(lit) = 0
         THEN ReplaceFrom(s, lit, i + 1, acc \o r \o here)
         ELSE ReplaceFrom(s, lit, i + Len(lit), acc \o r)
    ELSE ReplaceFrom(s, lit, i + 1, acc \o here)

ReplaceWord(section, word) ==
    ReplaceFrom(section, PatternLiteral(escapeRegExp(word)), 1, <<>>)

\* index of the last character of the line that starts at i
RECURSIVE LineEnd(_, _)
LineEnd(s, i) ==
    IF i + 1 <= Len(s) /\ s[i + 1] # "\n" THEN LineEnd(s, i + 1) ELSE i

\* content.split(/^(#.*$)/m): body, heading, body, ..., body
RECURSIVE SplitFrom(_, _, _, _)
SplitFrom(s, i, start, acc) ==
    IF i > Len(s) THEN Append(acc, SubSeq(s, start, Len(s)))
    ELSE IF s[i] = "#" /\ (i = 1 \/ s[i - 1] = "\n")
    THEN LET e == LineEnd(s, i) IN
         SplitFrom(s, e + 1, e + 1,
                   acc \o <<SubSeq(s, start, i - 1), SubSeq(s, i, e)>>)
    ELSE SplitFrom(s, i + 1, start, acc)

SplitSections(content) == SplitFrom(content, 1, 1, <<>>)

\* the exclusion test without the heading's toLowerCase()
HeadingExcludedCaseSensitive(section) ==
    LET excludedBlocks == ParseList(settings.excludedBlocks) IN
    \E k \in 1..Len(excludedBlocks) : includes(section, excludedBlocks[k])

\* excludedBlocks.some(block => section.toLowerCase().includes(block))

HeadingExcluded(section) ==
    LET excludedBlocks == ParseList(settings.excludedBlocks) IN
    \E k \in 1..Len(excludedBlocks) :
        includes(toLowerCase(section), excludedBlocks[k])

\* the filter without its blacklist test
WordAllowedNoBlacklist(word) ==
    LET whitelistedStrings == ParseList(settings.whitelistedStrings)
        lowercaseWord == toLowerCase(word)
    IN Len(whitelistedStrings) = 0
         \/ arrayIncludes(whitelistedStrings, lowercaseWord)

\* !blacklistedStrings.includes(lowercaseWord) &&
\* (whitelistedStrings.length === 0 || whitelistedStrings.includes(lowercaseWord))
WordAllowed(word) ==
    LET blacklistedStrings == ParseList(settings.blacklistedStrings)
        whitelistedStrings == ParseList(settings.whitelistedStrings)
        lowercaseWord == toLowerCase(word)
    IN /\ ~arrayIncludes(blacklistedStrings, lowercaseWord)
       /\ (Len(whitelistedStrings) = 0
             \/ arrayIncludes(whitelistedStrings, lowercaseWord))

\* for (const word of wordsToLink) over one body section
RECURSIVE LinkSection(_, _, _)
LinkSection(section, wordsToLink, k) ==
    IF k > Len(wordsToLink) THEN section
    ELSE LinkSection(IF WordAllowed(wordsToLink[k])
                     THEN ReplaceWord(section, wordsToLink[k])
                     ELSE section,
                     wordsToLink, k + 1)

\* for (let i = 0; i < sections.length; i++)
RECURSIVE LinkSections(_, _, _, _)
LinkSections(sections, wordsToLink, i, isExcludedBlock) ==
    IF i > Len(sections) THEN sections
    ELSE IF startsWith(sections[i], <<"#">>)
    THEN LinkSections(sections, wordsToLink, i + 1,
                      HeadingExcluded(sections[i]))
    ELSE IF ~isExcludedBlock
    THEN LinkSections([sections EXCEPT
                          ![i] = LinkSection(sections[i], wordsToLink, 1)],
                      wordsToLink, i + 1, isExcludedBlock)
    ELSE LinkSections(sections, wordsToLink, i + 1, isExcludedBlock)

linkWords(content, wordsToLink) ==
    join(LinkSections(SplitSections(content), wordsToLink, 1, FALSE))

----------------------------------------------------------------------------
(* Text constants *)

S_a == <<"a">>
S_b == <<"b">>
S_A == <<"A">>
S_B == <<"B">>
S_sp == <<" ">>
S_nl == <<"\n">>
S_hash == <<"#">>
S_open == <<"[", "[">>
S_close == <<"]", "]">>
S_empty == <<>>

DEFAULT_SETTINGS ==
    [existingFilesOnly |-> FALSE,
     specifiedDirectory |-> S_empty,
     excludedBlocks |-> S_empty,
     blacklistedStrings |-> S_empty,
     whitelistedStrings |-> S_empty,
     linksToRemove |-> S_empty]

----------------------------------------------------------------------------
(* The vault *)

Docs == {"D1", "D2", "D3"}

NoFile == "none"

\* the folder that settings.specifiedDirectory names when it is valid
SpecifiedFolder == <<"d">>

\* paths that resolve to a TFolder
vaultFolders == {SpecifiedFolder}

\* the folder d holds D1 and D2, the root holds d and D3
Path(doc) ==
    CASE doc = "D1" -> SpecifiedFolder \o <<"/">> \o S_a \o MdSuffix
      [] doc = "D2" -> SpecifiedFolder \o <<"/">> \o S_b \o MdSuffix
      [] doc = "D3" -> S_b \o MdSuffix

\* the order in which processFolder(root) meets the Markdown files
ScanOrder == <<"D1", "D2", "D3">>

\* getMarkdownFiles(directory) for the specified folder
getMarkdownFiles(directoryPath) ==
    IF directoryPath = SpecifiedFolder THEN <<"D1", "D2">> ELSE <<>>

----------------------------------------------------------------------------
(* Vocabulary and link removal *)

OpensAt(s, i) == i + 1 <= Len(s) /\ s[i] = "[" /\ s[i + 1] = "["

ClosesAt(s, i) == i + 1 <= Len(s) /\ s[i] = "]" /\ s[i + 1] = "]"

\* first index from j on that holds "]", or Len(s) + 1
RECURSIVE RunEnd(_, _)
RunEnd(s, j) == IF j <= Len(s) /\ s[j] # "]" THEN RunEnd(s, j + 1) ELSE j

\* the loop of getFileLinks over /\[\[([^\]]+)\]\]/g
RECURSIVE FileLinksFrom(_, _, _)
FileLinksFrom(s, i, links) ==
    IF i > Len(s) THEN links
    ELSE LET e == RunEnd(s, i + 2) IN
         IF OpensAt(s, i) /\ e > i + 2 /\ ClosesAt(s, e)
         THEN LET link == trim(Head(split(SubSeq(s, i + 2, e - 1), "|"))) IN
              FileLinksFrom(s, e + 2,
                            IF ~includes(link, <<".">>) \/ endsWith(link, MdSuffix)
                            THEN Append(links, link)
                            ELSE links)
         ELSE FileLinksFrom(s, i + 1, links)

getFileLinks(text) == FileLinksFrom(text, 1, <<>>)

\* a Set keeps the first of equal strings, in insertion order
RECURSIVE SetOrder(_, _)
SetOrder(seq, acc) ==
    IF seq = <<>> THEN acc
    ELSE SetOrder(Tail(seq),
                  IF arrayIncludes(acc, Head(seq)) THEN acc
                  ELSE Append(acc, Head(seq)))

RECURSIVE processFolder(_, _, _)
processFolder(docTexts, k, links) ==
    IF k > Len(ScanOrder) THEN links
    ELSE processFolder(docTexts, k + 1,
                       SetOrder(getFileLinks(docTexts[ScanOrder[k]]), links))

getVaultLinks(docTexts) == processFolder(docTexts, 1, <<>>)

getWordsToLink(docTexts) ==
    LET words == SetOrder(getVaultLinks(docTexts), <<>>)
        whitelist == ParseList(settings.whitelistedStrings)
    IN IF Len(whitelist) > 0
       THEN SelectSeq(words,
                      LAMBDA word : arrayIncludes(whitelist, toLowerCase(word)))
       ELSE words

\* newContent.replace(new RegExp(`\\[\\[${escapeRegExp(link)}\\]\\]`, 'gi'), link)
RECURSIVE RemoveLinkFrom(_, _, _, _)
RemoveLinkFrom(s, link, i, acc) ==
    LET lit == <<"[", "[">> \o PatternLiteral(escapeRegExp(link)) \o <<"]", "]">>
        n == Len(lit)
    IN IF i > Len(s) THEN acc
       ELSE IF /\ i + n - 1 <= Len(s)
               /\ \A k \in 1..n : LowerChar(s[i + k - 1]) = LowerChar(lit[k])
       THEN RemoveLinkFrom(s, link, i + n, acc \o link)
       ELSE RemoveLinkFrom(s, link, i + 1, Append(acc, s[i]))

RECURSIVE RemoveEach(_, _, _)
RemoveEach(newContent, linksToRemove, k) ==
    IF k > Len(linksToRemove) THEN newContent
    ELSE RemoveEach(RemoveLinkFrom(newContent, linksToRemove[k], 1, <<>>),
                    linksToRemove, k + 1)

removeLinks(text, linksToRemove) == RemoveEach(text, linksToRemove, 1)

\* settings.linksToRemove.split(',').map(link => link.trim()).filter(Boolean)
LinksToRemove ==
    LET parts == split(settings.linksToRemove, ",")
        mapped == [i \in 1..Len(parts) |-> trim(parts[i])]
    IN SelectSeq(mapped, LAMBDA x : x # <<>>)

----------------------------------------------------------------------------
(* The plugin's commands *)

IdleTask ==
    [cmd |-> "idle", files |-> <<>>, i |-> 0, pc |-> "idle",
     buf |-> <<>>, out |-> <<>>, removed |-> 0]

IdleUndo == [pc |-> "idle", i |-> 0]

\* pre: the vault when the latest linking run started; changed: the
\* documents whose content that run changed, in order; visited: the
\* documents the latest command read, in order; undoWrote: the documents the
\* latest undo wrote; events: how the last two operations ended; the rest
\* count what the bounds limit.
InitHist ==
    [pre |-> [d \in Docs |-> <<>>], changed |-> <<>>, visited |-> <<>>,
     undoWrote |-> {}, events |-> <<>>, cmds |-> 0, edits |-> 0, faults |-> 0]

Log(h, e) ==
    [h EXCEPT !.events = IF Len(@) < 2 THEN Append(@, e) ELSE <<@[2], e>>]

Fault(h) == [h EXCEPT !.faults = @ + 1]

Notice(msg, file, n) == [msg |-> msg, file |-> file, n |-> n]

Idle == task.cmd = "idle" /\ undo.pc = "idle"

CurFile == task.files[task.i]

pluginVars == <<vault, lastChanges, task, undo, notices, hist>>

vars == <<settings, vaultFiles, vault, lastChanges, task, undo, notices,
          hist, lw>>

\* the texts a document starts with, and the texts an edit gives it
DocTexts == { S_a, S_b, S_open \o S_a \o S_close }

\* the specified directory resolves to the folder d, or (with one vault) to
\* nothing
Init ==
    /\ \E dir \in {SpecifiedFolder, S_empty} :
          /\ settings = [DEFAULT_SETTINGS EXCEPT !.specifiedDirectory = dir,
                                                 !.linksToRemove = S_a]
          /\ vault \in IF dir = SpecifiedFolder
                       THEN [Docs -> DocTexts]
                       ELSE {[d \in Docs |-> S_a]}
    /\ vaultFiles = { Path(d) : d \in Docs }
    /\ lastChanges = <<>>
    /\ task = IdleTask
    /\ undo = IdleUndo
    /\ notices = <<>>
    /\ hist = [InitHist EXCEPT !.pre = vault]
    /\ lw = [phase |-> "off", content |-> S_empty, words |-> <<>>,
             out |-> S_empty, out2 |-> S_empty]

\* autoLinkCurrentFile up to its first await; activeFile is the file of
\* the active Markdown view when the command runs, NoFile without one
AutoLinkCurrentFile ==
    /\ Idle
    /\ hist.cmds < MaxCmds
    /\ lastChanges' = <<>>
    /\ \E activeFile \in Docs \cup {NoFile} :
          IF activeFile # NoFile
          THEN /\ task' = [IdleTask EXCEPT !.cmd = "link",
                                           !.files = <<activeFile>>,
                                           !.i = 1, !.pc = "read"]
               /\ notices' = <<>>
               /\ hist' = [hist EXCEPT !.cmds = @ + 1, !.pre = vault,
                                       !.changed = <<>>, !.visited = <<>>,
                                       !.undoWrote = {}]
          ELSE /\ task' = task
               /\ notices' = <<Notice("No active Markdown file to auto-link",
                                      NoFile, 0)>>
               /\ hist' = Log([hist EXCEPT !.cmds = @ + 1, !.pre = vault,
                                           !.changed = <<>>, !.visited = <<>>,
                                           !.undoWrote = {}],
                              "linkNoActive")
    /\ UNCHANGED <<settings, vaultFiles, vault, undo, lw>>

\* extendLinkingToDirectory up to its first await
ExtendLinkingToDirectory ==
    /\ Idle
    /\ hist.cmds < MaxCmds
    /\ IF settings.specifiedDirectory \notin vaultFolders
       THEN /\ task' = task
            /\ notices' = <<Notice("Invalid directory specified", NoFile, 0)>>
            /\ hist' = Log([hist EXCEPT !.cmds = @ + 1], "extendInvalid")
       ELSE /\ task' = [IdleTask EXCEPT
                           !.cmd = "extend",
                           !.files = getMarkdownFiles(settings.specifiedDirectory),
                           !.i = 1, !.pc = "read"]
            /\ notices' = <<>>
            /\ hist' = [hist EXCEPT !.cmds = @ + 1, !.pre = vault,
                                    !.changed = <<>>, !.visited = <<>>,
                                    !.undoWrote = {}]
    /\ UNCHANGED <<settings, vaultFiles, vault, lastChanges, undo, lw>>

\* what follows autoLinkFile(file) in its caller: the completion Notice of
\* autoLinkCurrentFile, or the next file of extendLinkingToDirectory and
\* its Notice after the last
AfterAutoLinkFile(ns, h) ==
    IF task.cmd = "link"
    THEN /\ task' = IdleTask
         /\ notices' = Append(ns, Notice("Auto-linking completed", CurFile, 0))
         /\ hist' = Log(h, "link")
    ELSE IF task.i < Len(task.files)
    THEN /\ task' = [task EXCEPT !.i = @ + 1, !.pc = "read",
                                 !.buf = <<>>, !.out = <<>>]
         /\ notices' = ns
         /\ hist' = h
    ELSE /\ task' = IdleTask
         /\ notices' = Append(ns, Notice("Linking extended", NoFile,
                                         Len(task.files)))
         /\ hist' = Log(h, "extend")

FailedNotice == Notice("Failed to auto-link file", CurFile, 0)

\* autoLinkFile: await this.app.vault.read(file)
AutoLinkFileRead ==
    /\ task.cmd \in {"link", "extend"}
    /\ task.pc = "read"
    /\ \/ /\ task' = [task EXCEPT !.pc = "scan", !.buf = vault[CurFile]]
          /\ hist' = [hist EXCEPT !.visited = Append(@, CurFile)]
          /\ UNCHANGED notices
       \/ /\ hist.faults < MaxFaults
          /\ AfterAutoLinkFile(Append(notices, FailedNotice),
                               Fault([hist EXCEPT
                                         !.visited = Append(@, CurFile)]))
    /\ UNCHANGED <<settings, vaultFiles, vault, lastChanges, undo, lw>>

\* autoLinkFile: await this.getWordsToLink(), then linkWords, the
\* comparison and the push onto lastChanges
AutoLinkFileScan ==
    /\ task.cmd \in {"link", "extend"}
    /\ task.pc = "scan"
    /\ \/ LET wordsToLink == getWordsToLink(vault)
              linkedContent == linkWords(task.buf, wordsToLink)
          IN IF task.buf # linkedContent
             THEN /\ lastChanges' =
                        Append(lastChanges,
                               [file |-> CurFile, oldContent |-> task.buf])
                  /\ task' = [task EXCEPT !.pc = "write", !.out = linkedContent]
                  /\ UNCHANGED <<notices, hist>>
             ELSE /\ lastChanges' = lastChanges
                  /\ AfterAutoLinkFile(notices, hist)
       \/ /\ hist.faults < MaxFaults
          /\ lastChanges' = lastChanges
          /\ AfterAutoLinkFile(Append(notices, FailedNotice), Fault(hist))
    /\ UNCHANGED <<settings, vaultFiles, vault, undo, lw>>

\* autoLinkFile: await this.app.vault.modify(file, linkedContent)
AutoLinkFileWrite ==
    /\ task.cmd \in {"link", "extend"}
    /\ task.pc = "write"
    /\ \/ /\ vault' = [vault EXCEPT ![CurFile] = task.out]
          /\ AfterAutoLinkFile(notices,
                               IF task.out # vault[CurFile]
                               THEN [hist EXCEPT !.changed = Append(@, CurFile)]
                               ELSE hist)
       \/ /\ hist.faults < MaxFaults
          /\ vault' = vault
          /\ AfterAutoLinkFile(Append(notices, FailedNotice), Fault(hist))
    /\ UNCHANGED <<settings, vaultFiles, lastChanges, undo, lw>>

\* removeLinksFromDirectory up to its first await
RemoveLinksFromDirectory ==
    /\ Idle
    /\ hist.cmds < MaxCmds
    /\ IF settings.specifiedDirectory \notin vaultFolders
       THEN /\ task' = task
            /\ notices' = <<Notice("Invalid directory specified", NoFile, 0)>>
            /\ hist' = Log([hist EXCEPT !.cmds = @ + 1], "removeInvalid")
       ELSE /\ task' = [IdleTask EXCEPT
                           !.cmd = "remove",
                           !.files = getMarkdownFiles(settings.specifiedDirectory),
                           !.i = 1, !.pc = "read"]
            /\ notices' = <<>>
            /\ hist' = [hist EXCEPT !.cmds = @ + 1, !.visited = <<>>]
    /\ UNCHANGED <<settings, vaultFiles, vault, lastChanges, undo, lw>>

\* the end of one turn of the loop of removeLinksFromDirectory
AfterRemoveFile(removed, h) ==
    IF task.i < Len(task.files)
    THEN /\ task' = [task EXCEPT !.i = @ + 1, !.pc = "read", !.buf = <<>>,
                                 !.out = <<>>, !.removed = removed]
         /\ notices' = notices
         /\ hist' = h
    ELSE /\ task' = IdleTask
         /\ notices' = Append(notices, Notice("Removed links", NoFile, removed))
         /\ hist' = Log(h, "remove")

\* removeLinksFromDirectory: await this.app.vault.read(file), then
\* removeLinks and the comparison; a read that throws ends the command
RemoveLinksRead ==
    /\ task.cmd = "remove"
    /\ task.pc = "read"
    /\ \/ LET newContent == removeLinks(vault[CurFile], LinksToRemove)
              h == [hist EXCEPT !.visited = Append(@, CurFile)]
          IN IF vault[CurFile] # newContent
             THEN /\ task' = [task EXCEPT !.pc = "write",
                                          !.buf = vault[CurFile],
                                          !.out = newContent]
                  /\ notices' = notices
                  /\ hist' = h
             ELSE AfterRemoveFile(task.removed, h)
       \/ /\ hist.faults < MaxFaults
          /\ task' = IdleTask
          /\ notices' = notices
          /\ hist' = Log(Fault([hist EXCEPT !.visited = Append(@, CurFile)]),
                         "removeAborted")
    /\ UNCHANGED <<settings, vaultFiles, vault, lastChanges, undo, lw>>

\* removeLinksFromDirectory: await this.app.vault.modify(file, newContent);
\* a write that throws ends the command
RemoveLinksWrite ==
    /\ task.cmd = "remove"
    /\ task.pc = "write"
    /\ \/ /\ vault' = [vault EXCEPT ![CurFile] = task.out]
          /\ AfterRemoveFile(task.removed + 1, hist)
       \/ /\ hist.faults < MaxFaults
          /\ vault' = vault
          /\ task' = IdleTask
          /\ notices' = notices
          /\ hist' = Log(Fault(hist), "removeAborted")
    /\ UNCHANGED <<settings, vaultFiles, lastChanges, undo, lw>>

\* undoLastChanges up to its first await
UndoLastChanges ==
    /\ Idle
    /\ hist.cmds < MaxCmds
    /\ IF Len(lastChanges) = 0
       THEN /\ undo' = undo
            /\ notices' = <<Notice("No changes to undo", NoFile, 0)>>
            /\ hist' = Log([hist EXCEPT !.cmds = @ + 1, !.undoWrote = {}],
                           "undoEmpty")
       ELSE /\ undo' = [pc |-> "write", i |-> 1]
            /\ notices' = <<>>
            /\ hist' = [hist EXCEPT !.cmds = @ + 1, !.undoWrote = {}]
    /\ UNCHANGED <<settings, vaultFiles, vault, lastChanges, task, lw>>

\* lastChanges left as it is
LedgerAfterUndoKept == lastChanges

\* this.lastChanges = [] after the loop
LedgerAfterUndo == <<>>

\* undoLastChanges: await this.app.vault.modify(change.file,
\* change.oldContent), then the next change, or the Notice and the reset
\* of lastChanges; a write that throws ends the command
UndoWrite ==
    /\ undo.pc = "write"
    /\ \/ LET change == lastChanges[undo.i]
              h == [hist EXCEPT !.undoWrote = @ \cup {change.file}]
          IN /\ vault' = [vault EXCEPT ![change.file] = change.oldContent]
             /\ IF undo.i < Len(lastChanges)
                THEN /\ undo' = [undo EXCEPT !.i = @ + 1]
                     /\ UNCHANGED <<notices, lastChanges>>
                     /\ hist' = h
                ELSE /\ undo' = IdleUndo
                     /\ notices' = Append(notices,
                                          Notice("Undid changes", NoFile,
                                                 Len(lastChanges)))
                     /\ lastChanges' = LedgerAfterUndo
                     /\ hist' = Log(h, "undo")
       \/ /\ hist.faults < MaxFaults
          /\ undo' = IdleUndo
          /\ hist' = Log(Fault(hist), "undoAborted")
          /\ UNCHANGED <<vault, notices, lastChanges>>
    /\ UNCHANGED <<settings, vaultFiles, task, lw>>

\* a document is edited outside the plugin
EditDocument ==
    /\ Idle
    /\ hist.edits < MaxEdits
    /\ \E d \in Docs, t \in DocTexts :
          /\ t # vault[d]
          /\ vault' = [vault EXCEPT ![d] = t]
    /\ hist' = Log([hist EXCEPT !.edits = @ + 1], "edit")
    /\ UNCHANGED <<settings, vaultFiles, lastChanges, task, undo,
                   notices, lw>>

Next ==
    \/ AutoLinkCurrentFile
    \/ AutoLinkFileRead
    \/ AutoLinkFileScan
    \/ AutoLinkFileWrite
    \/ ExtendLinkingToDirectory
    \/ RemoveLinksFromDirectory
    \/ RemoveLinksRead
    \/ RemoveLinksWrite
    \/ UndoLastChanges
    \/ UndoWrite
    \/ EditDocument

Spec == Init /\ [][Next]_vars

----------------------------------------------------------------------------
(* Properties of the commands, checked under Spec *)

LastEvent ==
    IF hist.events = <<>> THEN "none" ELSE hist.events[Len(hist.events)]

PrevEvent == IF Len(hist.events) < 2 THEN "none" ELSE hist.events[1]

\* the documents whose content the latest linking run changed
Changed == { hist.changed[k] : k \in 1..Len(hist.changed) }

LedgerFiles == [k \in 1..Len(lastChanges) |-> lastChanges[k].file]

\* C1: an undo that follows a linking run and runs to its end restores
\* every document the run modified to its content before the run and
\* empties the ledger; an undo called right after it writes no document and
\* shows 'No changes to undo'.
C1_UndoRestores ==
    Idle =>
        /\ (LastEvent = "undo" /\ PrevEvent \in {"link", "extend"}) =>
              /\ \A d \in Changed : vault[d] = hist.pre[d]
              /\ lastChanges = <<>>
        /\ (PrevEvent = "undo"
              /\ LastEvent \in {"undo", "undoEmpty", "undoAborted"}) =>
              /\ LastEvent = "undoEmpty"
              /\ hist.undoWrote = {}
              /\ notices = <<Notice("No changes to undo", NoFile, 0)>>

\* an extend run modified D1 and D2 and the undo after it has ended
C1_Witness ==
    /\ Idle
    /\ hist.events = <<"extend", "undo">>
    /\ hist.changed = <<"D1", "D2">>
    /\ hist.undoWrote = {"D1", "D2"}
    /\ vault["D1"] = hist.pre["D1"]
    /\ vault["D2"] = hist.pre["D2"]

\* C2: the ledger holds one run's records: an undo writes only documents
\* that the latest linking run modified (stated for behaviours in which no
\* vault call has thrown).
C2_UndoOnlyLastRun == hist.faults = 0 => hist.undoWrote \subseteq Changed

\* C3: after a linking run, the documents with a record in the ledger are
\* exactly the documents whose content the run changed, in processing
\* order.
C3_LedgerIsChangedDocs ==
    (Idle /\ LastEvent \in {"link", "extend"}) => LedgerFiles = hist.changed

\* C4: a bulk operation over the specified directory that has ended has
\* read every document of the batch and shown its completion Notice, also
\* when a read or write of one document threw.
C4_BatchRunsToCompletion ==
    (Idle /\ LastEvent \in {"extend", "remove", "removeAborted"}) =>
        /\ hist.visited = getMarkdownFiles(settings.specifiedDirectory)
        /\ notices # <<>>
        /\ notices[Len(notices)].msg \in {"Linking extended", "Removed links"}

\* C5: the single-file command without an active document writes no
\* document and leaves the ledger as it was.
C5_NoActiveIsNoOp ==
    [][(hist'.cmds = hist.cmds + 1 /\ LastEvent' = "linkNoActive")
          => (vault' = vault /\ lastChanges' = lastChanges)]_vars

----------------------------------------------------------------------------
(* SpecOverlap: an undo and a linking run in flight at the same time.
   Every command is started from the user interface and nothing makes a
   command wait for another one, so a command may start while another is
   suspended at an await.  At most one linking run and one undo are in
   flight.  lastChanges is a field that holds an array: the loop of
   undoLastChanges iterates the array the field held when the loop began,
   and sees what is pushed onto that array; undo.live says the field still
   holds that array, and undo.arr is that array once the field holds
   another. *)

\* the array the loop of undoLastChanges iterates
UndoArray == IF undo.live THEN lastChanges ELSE undo.arr

\* undoLastChanges after this.lastChanges has been given a new array
DetachedUndo ==
    IF undo.pc = "write" /\ undo.live
    THEN [undo EXCEPT !.live = FALSE, !.arr = lastChanges]
    ELSE undo

\* overlap: the latest linking run started while undoLastChanges was
\* suspended on a document write, and no undo has started since
InitOverlap ==
    /\ settings = [DEFAULT_SETTINGS EXCEPT
                      !.specifiedDirectory = SpecifiedFolder,
                      !.linksToRemove = S_a]
    /\ vault \in [Docs -> DocTexts]
    /\ vaultFiles = { Path(d) : d \in Docs }
    /\ lastChanges = <<>>
    /\ task = IdleTask
    /\ undo = IdleUndo
    /\ notices = <<>>
    /\ hist = [InitHist EXCEPT !.pre = vault] @@ [overlap |-> FALSE]
    /\ lw = [phase |-> "off", content |-> S_empty, words |-> <<>>,
             out |-> S_empty, out2 |-> S_empty]

\* autoLinkCurrentFile up to its first await, started while no other
\* linking run is in flight
StartAutoLinkCurrentFile ==
    /\ task.cmd = "idle"
    /\ hist.cmds < MaxCmds
    /\ lastChanges' = <<>>
    /\ undo' = DetachedUndo
    /\ \E activeFile \in Docs \cup {NoFile} :
          LET h == [hist EXCEPT !.cmds = @ + 1, !.pre = vault,
                                !.changed = <<>>, !.visited = <<>>,
                                !.overlap = (undo.pc = "write")]
          IN IF activeFile # NoFile
             THEN /\ task' = [IdleTask EXCEPT !.cmd = "link",
                                              !.files = <<activeFile>>,
                                              !.i = 1, !.pc = "read"]
                  /\ notices' = <<>>
                  /\ hist' = h
             ELSE /\ task' = task
                  /\ notices' =
                        <<Notice("No active Markdown file to auto-link",
                                 NoFile, 0)>>
                  /\ hist' = Log(h, "linkNoActive")
    /\ UNCHANGED <<settings, vaultFiles, vault, lw>>

\* extendLinkingToDirectory up to its first await, started while no other
\* linking run is in flight
StartExtendLinkingToDirectory ==
    /\ task.cmd = "idle"
    /\ hist.cmds < MaxCmds
    /\ task' = [IdleTask EXCEPT
                   !.cmd = "extend",
                   !.files = getMarkdownFiles(settings.specifiedDirectory),
                   !.i = 1, !.pc = "read"]
    /\ notices' = <<>>
    /\ hist' = [hist EXCEPT !.cmds = @ + 1, !.pre = vault,
                            !.changed = <<>>, !.visited = <<>>,
                            !.overlap = (undo.pc = "write")]
    /\ UNCHANGED <<settings, vaultFiles, vault, lastChanges, undo, lw>>

\* undoLastChanges up to its first await, started while no other undo is
\* in flight
StartUndoLastChanges ==
    /\ undo.pc = "idle"
    /\ hist.cmds < MaxCmds
    /\ IF Len(lastChanges) = 0
       THEN /\ undo' = undo
            /\ notices' = <<Notice("No changes to undo", NoFile, 0)>>
            /\ hist' = Log([hist EXCEPT !.cmds = @ + 1, !.undoWrote = {},
                                        !.overlap = FALSE],
                           "undoEmpty")
       ELSE /\ undo' = [pc |-> "write", i |-> 1, live |-> TRUE, arr |-> <<>>]
            /\ notices' = <<>>
            /\ hist' = [hist EXCEPT !.cmds = @ + 1, !.undoWrote = {},
                                    !.overlap = FALSE]
    /\ UNCHANGED <<settings, vaultFiles, vault, lastChanges, task, lw>>

\* undoLastChanges: await this.app.vault.modify(change.file,
\* change.oldContent), then the next change of the iterated array, or the
\* Notice and the reset of this.lastChanges; a write that throws ends the
\* command
UndoModify ==
    /\ undo.pc = "write"
    /\ \/ LET change == UndoArray[undo.i]
              h == [hist EXCEPT !.undoWrote = @ \cup {change.file}]
          IN /\ vault' = [vault EXCEPT ![change.file] = change.oldContent]
             /\ IF undo.i < Len(UndoArray)
                THEN /\ undo' = [undo EXCEPT !.i = @ + 1]
                     /\ UNCHANGED <<notices, lastChanges>>
                     /\ hist' = h
                ELSE /\ undo' = IdleUndo
                     /\ notices' = Append(notices,
                                          Notice("Undid changes", NoFile,
                                                 Len(lastChanges)))
                     /\ lastChanges' = LedgerAfterUndo
                     /\ hist' = Log(h, "undo")
       \/ /\ hist.faults < MaxFaults
          /\ undo' = IdleUndo
          /\ hist' = Log(Fault(hist), "undoAborted")
          /\ UNCHANGED <<vault, notices, lastChanges>>
    /\ UNCHANGED <<settings, vaultFiles, task, lw>>

NextOverlap ==
    \/ StartAutoLinkCurrentFile
    \/ StartExtendLinkingToDirectory
    \/ AutoLinkFileRead
    \/ AutoLinkFileScan
    \/ AutoLinkFileWrite
    \/ StartUndoLastChanges
    \/ UndoModify

SpecOverlap == InitOverlap /\ [][NextOverlap]_vars

\* C11: when a linking run started while undoLastChanges was suspended on
\* a document write, then once both have finished every document the run
\* modified has a record in the ledger.
C11_OverlappedRunKeepsRecords ==
    (Idle /\ hist.overlap) =>
        \A d \in Changed :
            \E k \in 1..Len(lastChanges) : lastChanges[k].file = d

----------------------------------------------------------------------------
(* SpecLink: linkWords applied to bounded inputs *)

\* all texts of at most n tokens
TextsOver(tokens, n) ==
    { join(f) : f \in UNION { [1..k -> tokens] : k \in 0..n } }

\* Input families: each varies the inputs one group of properties depends
\* on and leaves the other settings at their defaults.
NestingInputs ==
    [content : TextsOver({S_a, S_b, S_sp, S_open, S_close}, MaxTokens),
     words : { <<S_b>>,
               <<S_a \o S_sp \o S_b \o S_sp \o S_a, S_b>>,
               <<S_a \o S_sp \o S_b, S_a>>,
               <<S_empty>> },
     settings : {DEFAULT_SETTINGS},
     files : {{}}]

HeadingInputs ==
    [content : TextsOver({S_a, S_B, S_nl, S_hash}, MaxHeadingTokens),
     words : { <<S_a>>, <<S_b, S_a>> },
     settings : { [DEFAULT_SETTINGS EXCEPT !.excludedBlocks = e] :
                    e \in { S_empty, S_b, <<" ", "B", " ", ",", "x">> } },
     files : {{}}]

FilterInputs ==
    [content : TextsOver({S_a, S_A, S_b, S_sp}, MaxTokens),
     words : { <<S_a, S_b>>, <<S_B, S_A>> },
     settings : { [DEFAULT_SETTINGS EXCEPT !.blacklistedStrings = bl,
                                           !.whitelistedStrings = wl] :
                    bl \in { S_empty, S_A, <<"b", ",", " ", "a">> },
                    wl \in { S_empty, S_a, <<" ", "B">> } },
     files : {{}}]

ExistingInputs ==
    [content : TextsOver({S_a, S_A, S_b, S_sp, MdSuffix}, MaxTokens),
     words : { <<S_a>>, <<S_a \o MdSuffix, S_b>> },
     settings : { [DEFAULT_SETTINGS EXCEPT !.existingFilesOnly = x] :
                    x \in BOOLEAN },
     files : { {}, {S_A \o MdSuffix}, {S_a \o MdSuffix, S_b \o MdSuffix} }]

LinkInputs ==
    NestingInputs \cup HeadingInputs \cup FilterInputs \cup ExistingInputs

InitLink ==
    \E inp \in LinkInputs :
        /\ settings = inp.settings
        /\ vaultFiles = inp.files
        /\ lw = [phase |-> "input", content |-> inp.content,
                 words |-> inp.words, out |-> S_empty, out2 |-> S_empty]
        /\ vault = [d \in Docs |-> S_empty]
        /\ lastChanges = <<>>
        /\ task = IdleTask
        /\ undo = IdleUndo
        /\ notices = <<>>
        /\ hist = InitHist

\* linkWords(content, wordsToLink)
LinkWordsCall ==
    /\ lw.phase = "input"
    /\ lw' = [lw EXCEPT !.phase = "linked",
                        !.out = linkWords(lw.content, lw.words)]
    /\ UNCHANGED <<settings, vaultFiles, pluginVars>>

\* linkWords applied to its own output
LinkWordsAgain ==
    /\ lw.phase = "linked"
    /\ lw' = [lw EXCEPT !.phase = "relinked",
                        !.out2 = linkWords(lw.out, lw.words)]
    /\ UNCHANGED <<settings, vaultFiles, pluginVars>>

NextLink == LinkWordsCall \/ LinkWordsAgain

SpecLink == InitLink /\ [][NextLink]_vars

----------------------------------------------------------------------------
(* Properties of the Section-Aware Linker, checked under SpecLink *)

Linked == lw.phase \in {"linked", "relinked"}

BracketFree(s) == \A i \in 1..Len(s) : s[i] \notin {"[", "]"}

StripBrackets(s) == SelectSeq(s, LAMBDA c : c \notin {"[", "]"})

\* brackets occur only as "[[" x "]]" with x free of brackets: every link
\* is closed and no link lies inside another
RECURSIVE FlatLinksFrom(_, _, _)
FlatLinksFrom(s, i, open) ==
    IF i > Len(s) THEN ~open
    ELSE IF OpensAt(s, i) THEN ~open /\ FlatLinksFrom(s, i + 2, TRUE)
    ELSE IF ClosesAt(s, i) THEN open /\ FlatLinksFrom(s, i + 2, FALSE)
    ELSE s[i] \notin {"[", "]"} /\ FlatLinksFrom(s, i + 1, open)

FlatLinks(s) == FlatLinksFrom(s, 1, FALSE)

\* index of the "]]" that closes the link whose text starts at i (0: none)
RECURSIVE CloseOf(_, _, _)
CloseOf(s, i, depth) ==
    IF i > Len(s) THEN 0
    ELSE IF OpensAt(s, i) THEN CloseOf(s, i + 2, depth + 1)
    ELSE IF ClosesAt(s, i)
         THEN (IF depth = 0 THEN i ELSE CloseOf(s, i + 2, depth - 1))
    ELSE CloseOf(s, i + 1, depth)

\* the text each link of s wraps, links nested in it unwrapped
LinkTexts(s) ==
    { StripBrackets(SubSeq(s, i + 2, CloseOf(s, i + 2, 0) - 1)) :
        i \in { j \in 1..Len(s) : OpensAt(s, j) /\ CloseOf(s, j + 2, 0) > 0 } }

\* C6: the linker never inserts a link inside a link. On a text whose
\* links are flat (each "[[" closed by "]]", none nested) and with terms
\* that are non-empty and hold no bracket, the links of the output are
\* flat too: no occurrence between a "[[" and its "]]" was wrapped, whether
\* the link was in the input or inserted for an earlier term.
C6_NoLinkInsideLink ==
    (/\ Linked
     /\ FlatLinks(lw.content)
     /\ \A k \in 1..Len(lw.words) :
            lw.words[k] # <<>> /\ BracketFree(lw.words[k]))
        => FlatLinks(lw.out)

\* C7: linkWords is idempotent: linkWords(linkWords(t, W), W) equals
\* linkWords(t, W), settings and vault held fixed.
C7_Idempotent == lw.phase = "relinked" => lw.out2 = lw.out

\* the heading that governs section i of a split text: the nearest heading
\* before it (headings are the even sections of the split), 0 if none
GoverningHeading(i) == IF i >= 3 THEN i - 1 ELSE 0

ContainsExcludedEntry(heading) ==
    \E k \in 1..Len(ParseList(settings.excludedBlocks)) :
        includes(toLowerCase(heading),
                 toLowerCase(ParseList(settings.excludedBlocks)[k]))

\* C8: heading lines are returned unmodified; a body chunk whose nearest
\* preceding heading contains an excludedBlocks entry (case-insensitive
\* substring) is returned unchanged whatever the vocabulary, and every other
\* body chunk (no heading before it, or a heading without such an entry,
\* whatever the headings further up) is linked.
C8_HeadingExclusion ==
    Linked =>
        LET si == SplitSections(lw.content)
            so == SplitSections(lw.out)
        IN /\ Len(so) = Len(si)
           /\ \A i \in 1..Len(si) :
                IF i % 2 = 0 THEN so[i] = si[i]
                ELSE IF GoverningHeading(i) # 0
                        /\ ContainsExcludedEntry(si[GoverningHeading(i)])
                THEN so[i] = si[i]
                ELSE so[i] = LinkSection(si[i], lw.words, 1)

\* excludedBlocks "b": the occurrence before any heading is linked, the
\* occurrence below the heading "#B" is not
C8_Witness ==
    /\ lw.phase = "linked"
    /\ settings.excludedBlocks = <<"b">>
    /\ lw.words = <<(<<"a">>)>>
    /\ lw.content = <<"a", "\n", "#", "B", "\n", "a">>
    /\ lw.out = <<"[", "[", "a", "]", "]", "\n", "#", "B", "\n", "a">>

\* a term may be linked: not blacklisted and, with a whitelist, in it
Eligible(word) ==
    LET black == { ParseList(settings.blacklistedStrings)[k] :
                     k \in 1..Len(ParseList(settings.blacklistedStrings)) }
        white == { ParseList(settings.whitelistedStrings)[k] :
                     k \in 1..Len(ParseList(settings.whitelistedStrings)) }
    IN /\ toLowerCase(word) \notin black
       /\ (white = {} \/ toLowerCase(word) \in white)

\* C9: an occurrence is wrapped only for a term whose lowercase form is not
\* blacklisted and, when the whitelist is non-empty, is whitelisted: every
\* link of the output of a text without links wraps an occurrence of such a
\* term, and the output is the one the eligible terms alone produce.
C9_FilterGates ==
    (Linked /\ BracketFree(lw.content)) =>
        /\ \A m \in LinkTexts(lw.out) :
              \E k \in 1..Len(lw.words) :
                  /\ Eligible(lw.words[k])
                  /\ toLowerCase(lw.words[k]) = toLowerCase(m)
        /\ lw.out = linkWords(lw.content, SelectSeq(lw.words, Eligible))

\* whitelist "a", blacklist empty: of the vocabulary a, b only a is linked
C9_Witness ==
    /\ lw.phase = "linked"
    /\ settings.whitelistedStrings = <<"a">>
    /\ settings.blacklistedStrings = <<>>
    /\ lw.words = <<(<<"a">>), (<<"b">>)>>
    /\ lw.content = <<"A", " ", "b">>
    /\ lw.out = <<"[", "[", "A", "]", "]", " ", "b">>

\* a document exists at the path of the matched text
DocumentExistsFor(match) ==
    LET base == IF endsWith(match, <<".", "m", "d">>)
                THEN SubSeq(match, 1, Len(match) - 3)
                ELSE match
    IN (base \o <<".", "m", "d">>) \in vaultFiles

\* C10: with existingFilesOnly, every link inserted into a text without
\* links wraps matched text, in the occurrence's own casing, for which a
\* document exists at (text without a trailing ".md") + ".md"; an
\* occurrence without such a document stays unlinked.
C10_ExistingOnly ==
    (Linked /\ settings.existingFilesOnly /\ BracketFree(lw.content)) =>
        \A m \in LinkTexts(lw.out) : DocumentExistsFor(m)

\* only A.md exists: of the occurrences a and A of the term a, only A is
\* linked
C10_Witness ==
    /\ lw.phase = "linked"
    /\ settings.existingFilesOnly
    /\ vaultFiles = {<<"A", ".", "m", "d">>}
    /\ lw.words = <<(<<"a">>)>>
    /\ lw.content = <<"a", " ", "A">>
    /\ lw.out = <<"a", " ", "[", "[", "A", "]", "]">>

====
